---- MODULE Spec2Model ----
(***************************************************************************)
(* Carbon-intensity resolver (getCarbonIntensity and its cache) and impact *)
(* calculator (calculateEnvironmentalImpact) of the AI Environmental       *)
(* Impact Calculator, as a state machine.                                  *)
(*                                                                         *)
(* JavaScript values are tagged records; numbers are exact decimals        *)
(* m * 10^e, kept normalised (m carries no trailing zero).                 *)
(* The clock is Date.now() in milliseconds.                                *)
(***************************************************************************)
EXTENDS Integers, Sequences, FiniteSets, TLC

VARIABLES
    cache,      \* carbonIntensityCache: cache key -> {data, timestamp} or undefined
    now,        \* Date.now(), ms
    apiKey,     \* CO2SIGNAL_API_KEY
    calls,      \* the invocations suspended at `await axios.get`, with their locals
    callSeq,    \* number of invocations started so far
    requests,   \* axios.get calls issued so far, per countryCode argument
    last        \* the invocation that returned (or threw) most recently

vars == <<cache, now, apiKey, calls, callSeq, requests, last>>

----------------------------------------------------------------------------
(* Bounds of the model *)

\* invocations that may be suspended at the same time
NumCallers == 2
\* invocations started in one behaviour
MaxCalls == 2
\* length of a behaviour's clock, in cache TTLs
MaxTtlWindows == 1

----------------------------------------------------------------------------
(* JavaScript values *)

Undefined == [t |-> "undefined"]
Null == [t |-> "null"]
NaN == [t |-> "NaN"]
Obj == [t |-> "object"]
Str(s) == [t |-> "string", s |-> s]

RECURSIVE Norm(_, _)
Norm(m, e) ==
    IF m = 0 THEN [t |-> "number", m |-> 0, e |-> 0]
    ELSE IF m % 10 = 0 THEN Norm(m \div 10, e + 1)
    ELSE [t |-> "number", m |-> m, e |-> e]

\* the number m * 10^e
Num(m, e) == Norm(m, e)

\* Number(string) for the strings of the model
ParseNumber(s) ==
    CASE s = "" -> Num(0, 0)
      [] s = "5" -> Num(5, 0)
      [] OTHER -> NaN

\* ToBoolean
Truthy(v) ==
    CASE v.t = "undefined" -> FALSE
      [] v.t = "null" -> FALSE
      [] v.t = "NaN" -> FALSE
      [] v.t = "number" -> v.m # 0
      [] v.t = "string" -> v.s # ""
      [] OTHER -> TRUE

\* ToNumber
ToNumber(v) ==
    CASE v.t = "number" -> v
      [] v.t = "null" -> Num(0, 0)
      [] v.t = "string" -> ParseNumber(v.s)
      [] OTHER -> NaN

\* a || b
OrElse(a, b) == IF Truthy(a) THEN a ELSE b

\* a <= 0
LessEqZero(a) == LET n == ToNumber(a) IN n.t = "number" /\ n.m <= 0

\* a * b
Mul(a, b) ==
    LET x == ToNumber(a)
        y == ToNumber(b)
    IN  IF x.t = "NaN" \/ y.t = "NaN" THEN NaN ELSE Num(x.m * y.m, x.e + y.e)

\* a / 1000
DivThousand(a) ==
    LET x == ToNumber(a) IN IF x.t = "NaN" THEN NaN ELSE Num(x.m, x.e - 3)

RECURSIVE Pow10(_)
Pow10(k) == IF k <= 0 THEN 1 ELSE 10 * Pow10(k - 1)

Abs(i) == IF i < 0 THEN -i ELSE i

\* 10^k > 2 * |m|
Outweighs(k, m) == k > 9 \/ Pow10(k) > 2 * Abs(m)

\* Math.round(a / b * 10^d) / 10^d, for a divisor b > 0 (Math.round rounds half up)
RoundedQuotient(a, b, d) ==
    LET x == ToNumber(a)
        p == x.e + d - b.e
    IN  IF x.t = "NaN" THEN NaN
        ELSE IF p >= 0
             THEN Num((2 * x.m * Pow10(p) + b.m) \div (2 * b.m), -d)
        ELSE IF Outweighs(-p, x.m) THEN Num(0, 0)
        ELSE Num((2 * x.m + b.m * Pow10(-p)) \div (2 * b.m * Pow10(-p)), -d)

\* a > 0 : what a caller means by a positive quantity
IsPositive(v) == v.t = "number" /\ v.m > 0

\* an integer > 0
IsPositiveInteger(v) == v.t = "number" /\ v.m > 0 /\ v.e >= 0

\* names every object literal inherits from Object.prototype
PrototypeKeys ==
    {"constructor", "toString", "valueOf", "hasOwnProperty", "__proto__"}

\* obj[name] for an object literal with the own properties `own`
Lookup(own, name) ==
    IF name \in DOMAIN own THEN own[name]
    ELSE IF name \in PrototypeKeys THEN Obj
    ELSE Undefined

\* String.prototype.toUpperCase for the strings of the model
ToUpperCase(s) ==
    CASE s = "us" -> "US"
      [] s = "usa-average" -> "USA-AVERAGE"
      [] s = "global-average" -> "GLOBAL-AVERAGE"
      [] s = "renewable" -> "RENEWABLE"
      [] s = "constructor" -> "CONSTRUCTOR"
      [] OTHER -> s

----------------------------------------------------------------------------
(* Tables of the source, restricted to the entries the model's inputs reach *)

ENERGY_PER_TOKEN ==
    [gpt3 |-> Num(43, -7), gpt4 |-> Num(86, -7), claude |-> Num(65, -7),
     gemini |-> Num(55, -7), default |-> Num(6, -6)]

CO2_EMISSION_FACTORS ==
    ("global-average" :> Num(475, -3)) @@ ("usa-average" :> Num(416, -3))
    @@ ("europe-average" :> Num(276, -3)) @@ ("china-average" :> Num(581, -3))
    @@ ("canada-average" :> Num(130, -3)) @@ ("iowa-usa" :> Num(737, -3))
    @@ ("quebec-canada" :> Num(20, -3)) @@ ("renewable" :> Num(50, -3))

EQUIVALENCE_FACTORS ==
    [carMilePerGallon |-> Num(411, -3), flightPerMile |-> Num(255, -3),
     beefBurger |-> Num(34, -1), smartphoneCharge |-> Num(1, -4),
     householdElectricityPerDay |-> Num(205, -1), treeYearAbsorption |-> Num(22, 0),
     laptopHour |-> Num(5, -2), lightbulbHour |-> Num(4, -4)]

FALLBACK_CARBON_INTENSITY ==
    ("global-average" :> Num(475, -3)) @@ ("united-states" :> Num(386, -3))
    @@ ("france" :> Num(52, -3)) @@ ("germany" :> Num(338, -3))

countryToRegion ==
    ("US" :> Str("united-states")) @@ ("FR" :> Str("france"))
    @@ ("DE" :> Str("germany")) @@ ("MC" :> Str("monaco"))

CACHE_TTL == 5 * 60 * 1000

\* timeout of the axios request, ms
REQUEST_TIMEOUT == 10000

\* Map country code to region name
mapCountryCodeToRegion(countryCode) ==
    OrElse(Lookup(countryToRegion, ToUpperCase(countryCode)), Str("global-average")).s

\* getFallbackCarbonIntensity, called at time t
getFallbackCarbonIntensity(countryCode, t) ==
    LET region == mapCountryCodeToRegion(countryCode)
        carbonIntensity ==
            OrElse(Lookup(FALLBACK_CARBON_INTENSITY, region),
                   FALLBACK_CARBON_INTENSITY["global-average"])
    IN  [countryCode |-> ToUpperCase(countryCode),
         carbonIntensity |-> carbonIntensity,
         fossilFuelPercentage |-> Null,
         renewablePercentage |-> Null,
         timestamp |-> t,
         source |-> "fallback",
         region |-> region]

----------------------------------------------------------------------------
(* Inputs *)

\* countryCode arguments of getCarbonIntensity: a mapped code, and garbage
Keys == {"US", "INVALID-REGION"}

\* values of process.env.CO2SIGNAL_API_KEY
EnvValues == {Undefined, Str(""), Str("token")}

\* what the provider does with one request.  A body is response.data.data.
GoodBody == [t |-> "object", carbonIntensity |-> Num(386, 0), fossilFuelPercentage |-> Num(60, 0),
             renewablePercentage |-> Num(40, 0)]
EmptyBody == [t |-> "object", carbonIntensity |-> Undefined, fossilFuelPercentage |-> Undefined,
              renewablePercentage |-> Undefined]
TextBody == [t |-> "object", carbonIntensity |-> Str("n/a"), fossilFuelPercentage |-> Undefined,
             renewablePercentage |-> Undefined]
NegativeBody == [t |-> "object", carbonIntensity |-> Num(-5, 0), fossilFuelPercentage |-> Num(60, 0),
                 renewablePercentage |-> Num(40, 0)]
Bodies == {GoodBody, EmptyBody, TextBody, NegativeBody}

\* axios.get rejects: timeout, status outside 2xx, no connection
Rejections == {"timeout", "status", "network"}

Responses ==
    [kind : Rejections, data : {Undefined}]
    \cup [kind : {"ok"}, data : {Undefined} \cup Bodies]

----------------------------------------------------------------------------
(* getCarbonIntensity *)

\* `carbon_${countryCode}`
CacheKey(countryCode) == <<"carbon_", countryCode>>

\* every countryCode getCarbonIntensity is called with, directly or by the calculator
ResolveKeys == Keys

CacheKeys == {CacheKey(k) : k \in ResolveKeys}

\* the freshness test with the comparison made inclusive
IsFreshInclusive(cached, t) == Truthy(cached) /\ (t - cached.timestamp) <= CACHE_TTL

\* the freshness test with the comparison turned round
IsFreshInverted(cached, t) == Truthy(cached) /\ (t - cached.timestamp) > CACHE_TTL

\* cached && (Date.now() - cached.timestamp) < CACHE_TTL
IsFresh(cached, t) == Truthy(cached) /\ (t - cached.timestamp) < CACHE_TTL

\* the entry written only when the map has none for the key
CacheSetIfAbsent(c, countryCode, data, t) ==
    IF Truthy(c[CacheKey(countryCode)])
    THEN c
    ELSE [c EXCEPT ![CacheKey(countryCode)] =
                       [t |-> "entry", data |-> data, timestamp |-> t]]

\* the entry written under every key of the map
CacheSetAll(c, countryCode, data, t) ==
    [k \in DOMAIN c |-> [t |-> "entry", data |-> data, timestamp |-> t]]

\* the cache write left out
CacheSetDropped(c, countryCode, data, t) == c

\* carbonIntensityCache.set(cacheKey, {data, timestamp: Date.now()})
CacheSet(c, countryCode, data, t) ==
    [c EXCEPT ![CacheKey(countryCode)] = [t |-> "entry", data |-> data, timestamp |-> t]]

\* the sample built from a 2xx response with a body, at time t
LiveResult(countryCode, carbonData, t) ==
    [countryCode |-> ToUpperCase(countryCode),
     carbonIntensity |->
         OrElse(carbonData.carbonIntensity,
                getFallbackCarbonIntensity(countryCode, t).carbonIntensity),
     fossilFuelPercentage |-> OrElse(carbonData.fossilFuelPercentage, Null),
     renewablePercentage |-> OrElse(carbonData.renewablePercentage, Null),
     timestamp |-> t,
     source |-> "co2signal",
     region |-> mapCountryCodeToRegion(countryCode)]

\* response.data && response.data.data
HasData(resp) == resp.kind = "ok" /\ Truthy(resp.data)

\* the test for the API key left out
NoApiKeyNever(key) == FALSE

\* !CO2SIGNAL_API_KEY
NoApiKey(key) == ~Truthy(key)

\* getCarbonIntensity up to its first suspension, at time t, on the cache c and
\* the request counts rq.  pc "returned": the promise is already resolved with `ret`.
ResolveSyncIn(c, rq, countryCode, t) ==
    LET cached == c[CacheKey(countryCode)]
        fallbackData == getFallbackCarbonIntensity(countryCode, t)
    IN  IF IsFresh(cached, t)
        THEN [pc |-> "returned", ret |-> cached.data, path |-> "cache",
              cached |-> cached, cache |-> c, requests |-> rq]
        ELSE IF NoApiKey(apiKey)
        THEN [pc |-> "returned", ret |-> fallbackData, path |-> "nokey",
              cached |-> cached,
              cache |-> CacheSet(c, countryCode, fallbackData, t),
              requests |-> rq]
        ELSE [pc |-> "awaiting", ret |-> Undefined, path |-> "none",
              cached |-> cached, cache |-> c,
              requests |-> [rq EXCEPT ![countryCode] = @ + 1]]

\* getCarbonIntensity up to its first suspension, at time t
ResolveSync(countryCode, t) == ResolveSyncIn(cache, requests, countryCode, t)

\* getCarbonIntensity from the settling of axios.get, at time t
ResolveResume(countryCode, resp, t) ==
    IF HasData(resp)
    THEN LET result == LiveResult(countryCode, resp.data, t)
         IN  [ret |-> result, path |-> "live",
              cache |-> CacheSet(cache, countryCode, result, t)]
    ELSE LET fallbackData == getFallbackCarbonIntensity(countryCode, t)
         IN  [ret |-> fallbackData, path |-> "catch",
              cache |-> cache]

----------------------------------------------------------------------------
(* getMultipleCarbonIntensities *)

\* the countryCodes arrays getMultipleCarbonIntensities is called with
KeyLists ==
    {<<>>, <<"US">>, <<"US", "INVALID-REGION">>, <<"INVALID-REGION", "US">>,
     <<"US", "US">>}

\* what the requests of getMultipleCarbonIntensities settle with: a rejection, a
\* 2xx response without a body, with a well-formed body, with an empty body
ManyResponses ==
    {resp \in Responses :
        resp.kind \in {"network", "ok"} /\ resp.data \in {Undefined, GoodBody, EmptyBody}}

\* countryCodes.map(code => getCarbonIntensity(code)) at time t: the calls are made
\* one after the other, each running to its first suspension
RECURSIVE MapResolve(_, _, _, _)
MapResolve(countryCodes, c, rq, t) ==
    IF countryCodes = <<>>
    THEN [parts |-> <<>>, cache |-> c, requests |-> rq]
    ELSE LET r == ResolveSyncIn(c, rq, Head(countryCodes), t)
             rest == MapResolve(Tail(countryCodes), r.cache, r.requests, t)
         IN  [parts |-> <<[pc |-> r.pc, ret |-> r.ret, path |-> r.path]>>
                            \o rest.parts,
              cache |-> rest.cache,
              requests |-> rest.requests]

\* every promise of the array is fulfilled
AllFulfilled(promises) == \A i \in 1..Len(promises) : promises[i].pc = "returned"

\* the value array joined in the opposite order
PromiseAllReversed(promises) ==
    [i \in 1..Len(promises) |-> promises[Len(promises) + 1 - i].ret]

\* the value Promise.all(promises) is fulfilled with
PromiseAll(promises) == [i \in 1..Len(promises) |-> promises[i].ret]

----------------------------------------------------------------------------
(* clearCache, getCacheStats *)

\* getCacheStats with an entry of age TTL counted as valid
getCacheStatsInclusive(t) ==
    LET present == {k \in DOMAIN cache : Truthy(cache[k])}
        valid == {k \in present : (t - cache[k].timestamp) <= CACHE_TTL}
    IN  [t |-> "stats",
         totalEntries |-> Cardinality(present),
         validEntries |-> Cardinality(valid),
         expiredEntries |-> Cardinality(present \ valid),
         cacheTTL |-> CACHE_TTL,
         cacheTTLMinutes |-> CACHE_TTL \div (1000 * 60)]

\* getCacheStats at time t
getCacheStats(t) ==
    LET present == {k \in DOMAIN cache : Truthy(cache[k])}
        valid == {k \in present : (t - cache[k].timestamp) < CACHE_TTL}
    IN  [t |-> "stats",
         totalEntries |-> Cardinality(present),
         validEntries |-> Cardinality(valid),
         expiredEntries |-> Cardinality(present \ valid),
         cacheTTL |-> CACHE_TTL,
         cacheTTLMinutes |-> CACHE_TTL \div (1000 * 60)]

----------------------------------------------------------------------------
(* calculateEnvironmentalImpact *)

\* the validation left out
TokensRejectedNever(tokens) == FALSE

\* the validation with the comparison turned round
TokensRejectedInverted(tokens) == ~Truthy(tokens) \/ ~LessEqZero(tokens)

\* !tokens || tokens <= 0
TokensRejected(tokens) == ~Truthy(tokens) \/ LessEqZero(tokens)

ValidationMessage == Str("Token count must be a positive number")

\* the real-time branch never taken
TakesLivePathNever(region, useRealTimeData) == FALSE

\* the real-time branch taken for every country code, whatever useRealTimeData is
TakesLivePathIgnoringFlag(region, useRealTimeData) ==
    region \in {"US", "INVALID-REGION"}

\* useRealTimeData && region !== 'global-average' && region !== 'renewable'
TakesLivePath(region, useRealTimeData) ==
    useRealTimeData /\ region # "global-average" /\ region # "renewable"

\* CO2_EMISSION_FACTORS[region] || CO2_EMISSION_FACTORS['global-average']
StaticFactor(region) ==
    OrElse(Lookup(CO2_EMISSION_FACTORS, region), CO2_EMISSION_FACTORS["global-average"])

\* ENERGY_PER_TOKEN[model] || ENERGY_PER_TOKEN.default
EnergyPerToken(model) ==
    OrElse(Lookup(ENERGY_PER_TOKEN, model), ENERGY_PER_TOKEN.default)

\* metadata.realTimeData, for the sample carbonData (null on the static path)
RealTimeDataFlag(useRealTimeData, carbonData) ==
    useRealTimeData /\ carbonData # Null

\* the equivalences of the result
Equivalences(totalCO2) ==
    [carMiles |-> RoundedQuotient(totalCO2, EQUIVALENCE_FACTORS.carMilePerGallon, 2),
     flightMiles |-> RoundedQuotient(totalCO2, EQUIVALENCE_FACTORS.flightPerMile, 2),
     beefBurgers |-> RoundedQuotient(totalCO2, EQUIVALENCE_FACTORS.beefBurger, 2),
     smartphoneCharges |->
         RoundedQuotient(totalCO2, EQUIVALENCE_FACTORS.smartphoneCharge, 0),
     householdElectricityDays |->
         RoundedQuotient(totalCO2, EQUIVALENCE_FACTORS.householdElectricityPerDay, 2),
     treeYears |-> RoundedQuotient(totalCO2, EQUIVALENCE_FACTORS.treeYearAbsorption, 2),
     laptopHours |-> RoundedQuotient(totalCO2, EQUIVALENCE_FACTORS.laptopHour, 2),
     lightbulbHours |-> RoundedQuotient(totalCO2, EQUIVALENCE_FACTORS.lightbulbHour, 0)]

\* the result of a call that passed validation; carbonData is the resolver's sample,
\* or null when the resolver was not called; t is the time of the return
ImpactResult(args, carbonData, t) ==
    LET totalEnergy == Mul(args.tokens, EnergyPerToken(args.model))
        co2Factor == IF carbonData # Null
                     THEN DivThousand(carbonData.carbonIntensity)
                     ELSE StaticFactor(args.region)
        totalCO2 == Mul(totalEnergy, co2Factor)
    IN  [t |-> "result",
         tokens |-> args.tokens,
         model |-> args.model,
         region |-> args.region,
         energy |-> totalEnergy,
         co2 |-> totalCO2,
         factor |-> co2Factor,
         equivalences |-> Equivalences(totalCO2),
         metadata |->
             [realTimeData |-> RealTimeDataFlag(args.useRealTimeData, carbonData),
              dataSource |-> IF carbonData # Null THEN carbonData.source ELSE "static",
              timestamp |-> IF carbonData # Null THEN carbonData.timestamp ELSE t,
              fossilFuelPercentage |->
                  IF carbonData # Null THEN carbonData.fossilFuelPercentage ELSE Null,
              renewablePercentage |->
                  IF carbonData # Null THEN carbonData.renewablePercentage ELSE Null]]

\* the arguments of calculateEnvironmentalImpact
TokenInputs ==
    {Num(1000, 0), Num(0, 0), Num(-5, 0), Num(15, -1), Undefined, Str("abc")}

Models == {"gpt4", "totally-unknown-model", "constructor"}

Regions == {"US", "INVALID-REGION", "global-average", "renewable"}

\* every tokens value with one model, and every model with one tokens value: the
\* validation reads tokens alone, and the model only scales the energy; a region
\* that names an inherited property, with the real-time data switched off; and
\* every model with a tokens value the validation rejects
ComputeArgs ==
    [t : {"args"}, tokens : TokenInputs, model : {"gpt4"}, region : Regions,
     useRealTimeData : BOOLEAN]
    \cup [t : {"args"}, tokens : {Num(1000, 0)}, model : Models, region : Regions,
          useRealTimeData : BOOLEAN]
    \cup [t : {"args"}, tokens : {Num(1000, 0)}, model : {"gpt4"},
          region : {"constructor"}, useRealTimeData : {FALSE}]
    \cup [t : {"args"}, tokens : {Num(0, 0)}, model : Models,
          region : {"US"}, useRealTimeData : {TRUE}]

\* the calls that pass the validation, with a model of the table
ValidArgs == {args \in ComputeArgs : args.tokens = Num(1000, 0) /\ args.model = "gpt4"}

----------------------------------------------------------------------------
(* The invocations.  An invocation runs to its first suspension in one step *)
(* (Start...), and from the settling of its request to its return in        *)
(* another (Settle...): JavaScript runs each of these to completion.        *)

NoArgs == [t |-> "undefined"]

NoCall ==
    [pc |-> "none", id |-> 0, op |-> "none", key |-> "", args |-> NoArgs,
     startedAt |-> 0, cached |-> Undefined, ret |-> Undefined, path |-> "none",
     doneAt |-> 0, keys |-> <<>>, promises |-> <<>>]

CanStart == callSeq < MaxCalls

\* the invocation that starts now
NewCall(op, key, args) ==
    [NoCall EXCEPT !.id = callSeq + 1, !.op = op, !.key = key, !.args = args,
                   !.startedAt = now, !.doneAt = now]

\* an invocation hands its result to its caller
Deliver(call) == last' = call

\* a request without the timeout option
TimedOutNever(call) == FALSE

\* the request of the suspended invocation has been out for the timeout
TimedOut(call) == now - call.startedAt >= REQUEST_TIMEOUT

\* getCarbonIntensity(countryCode) called directly
StartResolve(countryCode) ==
    /\ CanStart
    /\ LET r == ResolveSync(countryCode, now)
           call == [NewCall("resolve", countryCode, NoArgs) EXCEPT
                       !.pc = r.pc, !.ret = r.ret, !.path = r.path,
                       !.cached = r.cached]
       IN  /\ cache' = r.cache
           /\ requests' = r.requests
           /\ IF r.pc = "awaiting"
              THEN /\ Cardinality(calls) < NumCallers
                   /\ calls' = calls \cup {call}
                   /\ UNCHANGED last
              ELSE /\ Deliver(call)
                   /\ UNCHANGED calls
    /\ callSeq' = callSeq + 1
    /\ UNCHANGED <<now, apiKey>>

\* axios.get of a suspended getCarbonIntensity settles with resp; it runs to its return
SettleResolve(call, resp) ==
    /\ call \in calls
    /\ call.op = "resolve"
    /\ resp.kind = "timeout" => TimedOut(call)
    /\ LET r == ResolveResume(call.key, resp, now)
       IN  /\ Deliver([call EXCEPT !.pc = "returned", !.ret = r.ret,
                                   !.path = r.path, !.doneAt = now])
           /\ cache' = r.cache
    /\ calls' = calls \ {call}
    /\ UNCHANGED <<now, apiKey, callSeq, requests>>

\* calculateEnvironmentalImpact(tokens, model, region, useRealTimeData)
StartCompute(args) ==
    /\ CanStart
    /\ callSeq' = callSeq + 1
    /\ UNCHANGED <<now, apiKey>>
    /\ LET new == NewCall("compute", args.region, args)
       IN  IF TokensRejected(args.tokens)
           THEN /\ Deliver([new EXCEPT !.pc = "threw", !.ret = ValidationMessage,
                                       !.path = "validation"])
                /\ UNCHANGED <<cache, calls, requests>>
           ELSE IF ~TakesLivePath(args.region, args.useRealTimeData)
           THEN /\ Deliver([new EXCEPT !.pc = "returned", !.path = "static",
                                       !.ret = ImpactResult(args, Null, now)])
                /\ UNCHANGED <<cache, calls, requests>>
           ELSE LET r == ResolveSync(args.region, now)
                    call == [new EXCEPT !.pc = r.pc, !.path = r.path,
                                        !.cached = r.cached]
                IN  /\ cache' = r.cache
                    /\ requests' = r.requests
                    /\ IF r.pc = "awaiting"
                       THEN /\ Cardinality(calls) < NumCallers
                            /\ calls' = calls \cup {call}
                            /\ UNCHANGED last
                       ELSE /\ Deliver([call EXCEPT
                                   !.ret = ImpactResult(args, r.ret, now)])
                            /\ UNCHANGED calls

\* axios.get of the getCarbonIntensity a suspended calculation awaits settles with
\* resp; the resolver and then the calculation run to their return
SettleCompute(call, resp) ==
    /\ call \in calls
    /\ call.op = "compute"
    /\ resp.kind = "timeout" => TimedOut(call)
    /\ LET r == ResolveResume(call.key, resp, now)
       IN  /\ Deliver([call EXCEPT !.pc = "returned", !.path = r.path, !.doneAt = now,
                                   !.ret = ImpactResult(call.args, r.ret, now)])
           /\ cache' = r.cache
    /\ calls' = calls \ {call}
    /\ UNCHANGED <<now, apiKey, callSeq, requests>>

\* getMultipleCarbonIntensities(countryCodes): every getCarbonIntensity is called
\* before Promise.all is awaited
StartResolveMany(countryCodes) ==
    /\ CanStart
    /\ LET m == MapResolve(countryCodes, cache, requests, now)
           call == [NewCall("resolveMany", "", NoArgs) EXCEPT
                       !.keys = countryCodes, !.promises = m.parts]
       IN  /\ cache' = m.cache
           /\ requests' = m.requests
           /\ IF AllFulfilled(m.parts)
              THEN /\ Deliver([call EXCEPT !.pc = "returned",
                                           !.ret = PromiseAll(m.parts)])
                   /\ UNCHANGED calls
              ELSE /\ Cardinality(calls) < NumCallers
                   /\ calls' = calls \cup {[call EXCEPT !.pc = "awaiting"]}
                   /\ UNCHANGED last
    /\ callSeq' = callSeq + 1
    /\ UNCHANGED <<now, apiKey>>

\* axios.get of the i-th getCarbonIntensity of a suspended
\* getMultipleCarbonIntensities settles with resp; that getCarbonIntensity runs to
\* its return, and Promise.all is fulfilled when it was the last one
SettleResolveMany(call, i, resp) ==
    /\ call \in calls
    /\ call.op = "resolveMany"
    /\ i \in 1..Len(call.promises)
    /\ call.promises[i].pc = "awaiting"
    /\ resp.kind = "timeout" => TimedOut(call)
    /\ LET r == ResolveResume(call.keys[i], resp, now)
           promises == [call.promises EXCEPT
                           ![i] = [pc |-> "returned", ret |-> r.ret, path |-> r.path]]
           next == [call EXCEPT !.promises = promises, !.doneAt = now]
       IN  /\ cache' = r.cache
           /\ IF AllFulfilled(promises)
              THEN /\ Deliver([next EXCEPT !.pc = "returned",
                                           !.ret = PromiseAll(promises)])
                   /\ calls' = calls \ {call}
              ELSE /\ calls' = (calls \ {call}) \cup {next}
                   /\ UNCHANGED last
    /\ UNCHANGED <<now, apiKey, callSeq, requests>>

\* only the entries that have reached the TTL removed
CacheClearExpired(c) ==
    [k \in DOMAIN c |-> IF IsFresh(c[k], now) THEN c[k] ELSE Undefined]

\* carbonIntensityCache.clear()
CacheClear(c) == [k \in DOMAIN c |-> Undefined]

\* carbonIntensityCache.size
CacheSize(c) == Cardinality({k \in DOMAIN c : Truthy(c[k])})

\* clearCache(); the record of the call keeps the size of the map it cleared
ClearCache ==
    /\ CanStart
    /\ cache' = CacheClear(cache)
    /\ Deliver([NewCall("clearCache", "", NoArgs) EXCEPT
                   !.pc = "returned", !.cached = Num(CacheSize(cache), 0)])
    /\ callSeq' = callSeq + 1
    /\ UNCHANGED <<now, apiKey, calls, requests>>

\* getCacheStats()
CacheStats ==
    /\ CanStart
    /\ Deliver([NewCall("getCacheStats", "", NoArgs) EXCEPT
                   !.pc = "returned", !.ret = getCacheStats(now)])
    /\ callSeq' = callSeq + 1
    /\ UNCHANGED <<cache, now, apiKey, calls, requests>>

\* time passes: by the request timeout while a request is in flight (it settles
\* within its timeout), and by a TTL while none is
TickSteps ==
    IF calls # {} THEN {REQUEST_TIMEOUT} ELSE {CACHE_TTL}

Tick(d) ==
    /\ now < MaxTtlWindows * CACHE_TTL
    /\ \A call \in calls : now + d <= call.startedAt + REQUEST_TIMEOUT
    /\ now' = now + d
    /\ UNCHANGED <<cache, apiKey, calls, callSeq, requests, last>>

\* the provider does not answer: the timeout of the oldest request runs out
AwaitTimeout ==
    /\ calls # {}
    /\ \A call \in calls : now + REQUEST_TIMEOUT <= call.startedAt + REQUEST_TIMEOUT
    /\ now' = now + REQUEST_TIMEOUT
    /\ UNCHANGED <<cache, apiKey, calls, callSeq, requests, last>>

\* CO2SIGNAL_API_KEY = process.env.CO2SIGNAL_API_KEY || null
ApiKeyFromEnv(v) == OrElse(v, Null)

Init ==
    /\ cache = [k \in CacheKeys |-> Undefined]
    /\ now = 0
    /\ apiKey \in {ApiKeyFromEnv(v) : v \in EnvValues}
    /\ calls = {}
    /\ callSeq = 0
    /\ requests = [k \in ResolveKeys |-> 0]
    /\ last = NoCall

\* the resolver under concurrent callers
Next ==
    \/ \E k \in Keys : StartResolve(k)
    \/ \E call \in calls, resp \in Responses : SettleResolve(call, resp)
    \/ ClearCache
    \/ CacheStats
    \/ \E d \in TickSteps : Tick(d)

Spec == Init /\ [][Next]_vars

\* the resolver called by one caller that awaits each call before the next
SeqNext ==
    \/ \E k \in Keys : calls = {} /\ StartResolve(k)
    \/ \E call \in calls, resp \in Responses : SettleResolve(call, resp)
    \/ calls = {} /\ ClearCache
    \/ calls = {} /\ CacheStats
    \/ \E d \in TickSteps : Tick(d)

SeqSpec == Init /\ [][SeqNext]_vars

\* the calculator, called by one caller that awaits each call before the next
CalcNext ==
    \/ \E args \in ComputeArgs : calls = {} /\ StartCompute(args)
    \/ \E call \in calls, resp \in Responses : SettleCompute(call, resp)
    \/ \E d \in TickSteps : Tick(d)

CalcSpec == Init /\ [][CalcNext]_vars

\* getMultipleCarbonIntensities, called by one caller that awaits each call
ManyNext ==
    \/ \E countryCodes \in KeyLists : calls = {} /\ StartResolveMany(countryCodes)
    \/ \E call \in calls, resp \in ManyResponses :
           \E i \in 1..Len(call.promises) : SettleResolveMany(call, i, resp)
    \/ \E d \in TickSteps : Tick(d)

ManySpec == Init /\ [][ManyNext]_vars

\* the three operations that read carbon intensity, called by one caller that
\* awaits each call before the next
AnyNext ==
    \/ \E k \in Keys : calls = {} /\ StartResolve(k)
    \/ \E call \in calls, resp \in ManyResponses : SettleResolve(call, resp)
    \/ \E countryCodes \in KeyLists : calls = {} /\ StartResolveMany(countryCodes)
    \/ \E call \in calls, resp \in ManyResponses :
           \E i \in 1..Len(call.promises) : SettleResolveMany(call, i, resp)
    \/ \E args \in ValidArgs : calls = {} /\ StartCompute(args)
    \/ \E call \in calls, resp \in ManyResponses : SettleCompute(call, resp)
    \/ \E d \in TickSteps : Tick(d)

AnySpec == Init /\ [][AnyNext]_vars

\* getCarbonIntensity and calculateEnvironmentalImpact, called by one caller that
\* awaits each call, with a provider that may not answer
TimedNext ==
    \/ \E k \in Keys : calls = {} /\ StartResolve(k)
    \/ \E call \in calls, resp \in Responses : SettleResolve(call, resp)
    \/ \E args \in ValidArgs : calls = {} /\ StartCompute(args)
    \/ \E call \in calls, resp \in Responses : SettleCompute(call, resp)
    \/ AwaitTimeout

\* the request of a suspended invocation settles when its timeout has run out
TimeoutFires == \E call \in calls : TimedOut(call) /\ calls' = calls \ {call}

\* time passes, and a timer that has run out rejects its request
TimedFairness == WF_vars(AwaitTimeout) /\ WF_calls(TimeoutFires)

TimedSpec == Init /\ [][TimedNext]_vars /\ TimedFairness

----------------------------------------------------------------------------
(* Properties *)

\* entry e is present and younger than the TTL at time t
Unexpired(e, t) == e # Undefined /\ t - e.timestamp < CACHE_TTL

ResolveReturned(call) == call.op = "resolve" /\ call.pc = "returned"

ComputeDone(call) == call.op = "compute" /\ call.pc \in {"returned", "threw"}

\* this step starts a direct getCarbonIntensity(k)
StartsResolve(k) ==
    /\ callSeq' = callSeq + 1
    /\ \E call \in calls' \cup {last'} :
           call.id = callSeq' /\ call.op = "resolve" /\ call.key = k

\* this step returns a direct getCarbonIntensity to its caller
ReturnsResolve == last'.id # last.id /\ ResolveReturned(last')

TotalRequests == requests["US"] + requests["INVALID-REGION"]

\* C1: getCarbonIntensity never throws and every sample it returns has
\* carbonIntensity > 0, whatever the key, the cache and the provider's answer.
C1_ResolveIntensityPositive ==
    last.op = "resolve" =>
        /\ last.pc = "returned"
        /\ IsPositive(last.ret.carbonIntensity)

\* C2: a calculation with a positive-integer token count returns a result, for
\* every model, region, useRealTimeData and provider behaviour; the only error
\* that leaves calculateEnvironmentalImpact is the validation error.
C2_ComputeAbsorbsProviderFailures ==
    ComputeDone(last) =>
        /\ IsPositiveInteger(last.args.tokens) =>
               last.pc = "returned" /\ last.ret.t = "result"
        /\ last.pc = "threw" =>
               last.ret = ValidationMessage /\ ~IsPositiveInteger(last.args.tokens)

\* a calculation on the live path returned although the provider failed
C2_Witness ==
    /\ ComputeDone(last)
    /\ last.args.tokens = Num(1000, 0)
    /\ last.args.region = "INVALID-REGION"
    /\ last.path = "catch"
    /\ last.pc = "returned"

\* C3: calculateEnvironmentalImpact throws the validation error exactly for the
\* token values that are not positive integers, so every result's tokens is an
\* integer > 0.
C3_RejectsAllButPositiveIntegers ==
    ComputeDone(last) =>
        /\ last.pc = "threw" <=> ~IsPositiveInteger(last.args.tokens)
        /\ last.pc = "returned" => IsPositiveInteger(last.ret.tokens)

\* C4: the result's realTimeData is false and its dataSource 'fallback' whenever
\* the sample behind it is a fallback; realTimeData is true only with a sample
\* that came from the provider.
C4_ProvenanceTruthful ==
    (ComputeDone(last) /\ last.pc = "returned" /\ IsPositiveInteger(last.args.tokens)) =>
        /\ last.path \in {"nokey", "catch"} =>
               /\ last.ret.metadata.realTimeData = FALSE
               /\ last.ret.metadata.dataSource = "fallback"
        /\ last.ret.metadata.realTimeData = TRUE =>
               last.ret.metadata.dataSource = "co2signal"

\* C5: getCarbonIntensity(k) called while the cache holds an entry for k younger
\* than the TTL returns that entry's sample, issues no request and leaves the
\* cache as it was.
C5_CacheHitIsSideEffectFree ==
    [][\A k \in Keys :
          (StartsResolve(k) /\ Unexpired(cache[CacheKey(k)], now)) =>
              /\ ResolveReturned(last')
              /\ last'.id = callSeq'
              /\ last'.ret = cache[CacheKey(k)].data
              /\ requests' = requests
              /\ cache' = cache]_vars

\* a call was served from the cache
C5_Witness ==
    /\ ResolveReturned(last)
    /\ last.path = "cache"
    /\ requests[last.key] = 1

\* C6: getCarbonIntensity never returns the sample of an entry that had reached
\* the TTL when the call read it: such a call returns a sample constructed
\* during the call, also when the request fails.
C6_NoStaleSampleReturned ==
    ResolveReturned(last) =>
        /\ last.path = "cache" =>
               /\ last.ret = last.cached.data
               /\ last.startedAt - last.cached.timestamp < CACHE_TTL
        /\ (last.cached # Undefined
              /\ last.startedAt - last.cached.timestamp >= CACHE_TTL) =>
               /\ last.ret # last.cached.data
               /\ last.ret.timestamp >= last.startedAt
               /\ last.ret.timestamp > last.cached.data.timestamp

\* a call found an expired entry and its request failed
C6_Witness ==
    /\ ResolveReturned(last)
    /\ last.cached # Undefined
    /\ last.startedAt - last.cached.timestamp >= CACHE_TTL
    /\ last.path = "catch"

\* C7: two consecutive getCarbonIntensity(k) calls of a sequential caller, the
\* second made less than a TTL after the first one's sample, return samples
\* with the same timestamp, whatever the first call's request did.
C7_SameTimestampWithinTtl ==
    [][(/\ ResolveReturned(last)
        /\ ReturnsResolve
        /\ last'.id = last.id + 1
        /\ last'.key = last.key
        /\ last'.startedAt >= last.doneAt
        /\ last'.startedAt - last.ret.timestamp < CACHE_TTL) =>
           last'.ret.timestamp = last.ret.timestamp]_vars

\* C8: from an empty cache with an API key, getCarbonIntensity('US') that returns
\* a live sample followed within the TTL by getCarbonIntensity('US') makes one
\* request in total, and the second call is served from the cache.
C8_OneRequestForTwoCalls ==
    [][(/\ ResolveReturned(last)
        /\ last.id = 1
        /\ last.key = "US"
        /\ last.path = "live"
        /\ ReturnsResolve
        /\ last'.id = 2
        /\ last'.key = "US"
        /\ last'.startedAt - last.doneAt < CACHE_TTL) =>
           /\ TotalRequests' = 1
           /\ last'.path = "cache"
           /\ last'.ret = last.ret]_vars

\* the second of the two calls returned the first one's live sample
C8_Witness ==
    /\ ResolveReturned(last)
    /\ last.id = 2
    /\ last.key = "US"
    /\ last.path = "cache"
    /\ last.ret.source = "co2signal"
    /\ Truthy(apiKey)
    /\ TotalRequests = 1

\* C9: when getCarbonIntensity(k) has returned, the cache holds an unexpired
\* entry for k whose sample is the returned one, whichever path produced it.
C9_EveryResultCached ==
    (ResolveReturned(last) /\ now = last.doneAt) =>
        /\ Unexpired(cache[CacheKey(last.key)], now)
        /\ cache[CacheKey(last.key)].data = last.ret

\* C10: after a request for k failed and getCarbonIntensity(k) fell back, no
\* request for k is issued before a TTL has passed since the failed attempt.
C10_NoRequestAfterFailureWithinTtl ==
    [][\A k \in Keys :
          (/\ ResolveReturned(last)
           /\ last.key = k
           /\ last.path = "catch"
           /\ now - last.doneAt < CACHE_TTL) =>
              requests'[k] = requests[k]]_vars

\* a getMultipleCarbonIntensities call has returned
ManyReturned(call) == call.op = "resolveMany" /\ call.pc = "returned"

\* C11: without an API key no getCarbonIntensity, getMultipleCarbonIntensities or
\* calculateEnvironmentalImpact call issues a request or waits for one, and every
\* sample getCarbonIntensity returns has source 'fallback'.
C11_NoKeyNoRequest ==
    ~Truthy(apiKey) =>
        /\ TotalRequests = 0
        /\ calls = {}
        /\ ResolveReturned(last) => last.ret.source = "fallback"
        /\ ManyReturned(last) =>
               \A i \in 1..Len(last.ret) : last.ret[i].source = "fallback"
        /\ (ComputeDone(last) /\ last.path # "static") =>
               last.ret.metadata.dataSource = "fallback"

\* without an API key, a second getCarbonIntensity call returned a fallback sample
\* it built itself
C11_Witness ==
    /\ ~Truthy(apiKey)
    /\ ResolveReturned(last)
    /\ last.id = 2
    /\ last.path = "nokey"
    /\ last.ret.source = "fallback"

\* the response is a 2xx one whose body is
\* {data: {carbonIntensity: number, fossilFuelPercentage: number,
\*         renewablePercentage: number}}
ConformsToSchema(resp) ==
    /\ resp.kind = "ok"
    /\ resp.data.t = "object"
    /\ resp.data.carbonIntensity.t = "number"
    /\ resp.data.fossilFuelPercentage.t = "number"
    /\ resp.data.renewablePercentage.t = "number"

\* the entry of the fallback table for the region of countryCode, the
\* global-average one when the table has none
TableIntensity(countryCode) ==
    LET region == mapCountryCodeToRegion(countryCode)
    IN  IF region \in DOMAIN FALLBACK_CARBON_INTENSITY
        THEN FALLBACK_CARBON_INTENSITY[region]
        ELSE FALLBACK_CARBON_INTENSITY["global-average"]

\* C12: when the request of a getCarbonIntensity(k) call fails (timeout, status
\* outside 2xx, network failure, malformed response), the call returns a sample
\* with source 'fallback', null percentages and the fallback table's intensity
\* for the region of k.
C12_FailureGivesFallback ==
    [][\A call \in calls, resp \in Responses :
          (SettleResolve(call, resp) /\ ~ConformsToSchema(resp)) =>
              /\ ResolveReturned(last')
              /\ last'.ret.source = "fallback"
              /\ last'.ret.fossilFuelPercentage = Null
              /\ last'.ret.renewablePercentage = Null
              /\ last'.ret.carbonIntensity = TableIntensity(call.key)]_vars

\* C13: a 2xx response whose body is not of the documented shape makes
\* getCarbonIntensity return a 'fallback' sample, and a sample with source
\* 'co2signal' carries the carbonIntensity number of the provider's body.
C13_DeviatingBodyIsFailure ==
    [][\A call \in calls, resp \in Responses :
          SettleResolve(call, resp) =>
              /\ (resp.kind = "ok" /\ ~ConformsToSchema(resp)) =>
                     last'.ret.source = "fallback"
              /\ last'.ret.source = "co2signal" =>
                     /\ ConformsToSchema(resp)
                     /\ last'.ret.carbonIntensity = resp.data.carbonIntensity]_vars

\* the call takes the static path
StaticOnly(args) ==
    args.region \in {"global-average", "renewable"} \/ ~args.useRealTimeData

\* the entry of the static table for region, the global-average one when the
\* table has none
TableFactor(region) ==
    IF region \in DOMAIN CO2_EMISSION_FACTORS
    THEN CO2_EMISSION_FACTORS[region]
    ELSE CO2_EMISSION_FACTORS["global-average"]

\* C14: a calculation for region 'global-average' or 'renewable', or with
\* useRealTimeData false, does not call getCarbonIntensity, issues no request and
\* leaves the cache as it was; its factor is the static table's entry for the
\* region (the global-average entry for a region the table does not have), its
\* realTimeData is false and its dataSource 'static'.
C14_StaticPathIsLocal ==
    [][\A args \in ComputeArgs :
          (StartCompute(args) /\ StaticOnly(args)) =>
              /\ cache' = cache
              /\ requests' = requests
              /\ calls' = calls
              /\ ComputeDone(last')
              /\ last'.pc = "returned" =>
                     /\ last'.path = "static"
                     /\ last'.ret.factor = TableFactor(args.region)
                     /\ last'.ret.metadata.realTimeData = FALSE
                     /\ last'.ret.metadata.dataSource = "static"]_vars

\* the sample the getCarbonIntensity call of the calculation in `call` returned,
\* the calculation returning at time t and leaving the cache c
SampleOf(call, c, t) ==
    CASE call.path = "cache" -> call.cached.data
      [] call.path = "live" -> c[CacheKey(call.key)].data
      [] OTHER -> getFallbackCarbonIntensity(call.key, t)

\* C15: a calculation that passed the validation takes its factor either from
\* the static table, without calling getCarbonIntensity, or from the sample
\* getCarbonIntensity returned, divided by 1000: the first exactly when the
\* region is static-only or useRealTimeData is false, the second otherwise.
C15_ExactlyOnePath ==
    [][/\ (last' # last /\ ComputeDone(last') /\ last'.pc = "returned") =>
             IF StaticOnly(last'.args)
             THEN /\ last'.path = "static"
                  /\ last'.ret.factor = StaticFactor(last'.args.region)
                  /\ last'.ret.metadata.dataSource = "static"
                  /\ cache' = cache /\ requests' = requests /\ calls' = calls
             ELSE /\ last'.path \in {"cache", "nokey", "live", "catch"}
                  /\ last'.ret.factor = DivThousand(SampleOf(last', cache', now').carbonIntensity)
                  /\ last'.ret.metadata.dataSource = SampleOf(last', cache', now').source
                  /\ last'.ret.metadata.dataSource # "static"
       /\ \A call \in calls' :
             call.op = "compute" => ~StaticOnly(call.args)]_vars

\* a calculation for 'US' took the factor of the sample getCarbonIntensity fell
\* back to, which is not the factor the static table has for 'US'
C15_Witness ==
    /\ ComputeDone(last)
    /\ last.pc = "returned"
    /\ last.args.region = "US"
    /\ last.path = "catch"
    /\ last.ret.factor = DivThousand(FALLBACK_CARBON_INTENSITY["united-states"])
    /\ last.ret.factor # StaticFactor("US")

\* C16: every result of calculateEnvironmentalImpact has co2.factor > 0, and
\* co2.total > 0 when its energy is, on the static path and with a sample of
\* getCarbonIntensity, for every region and every answer of the provider.
C16_FactorPositive ==
    (ComputeDone(last) /\ last.pc = "returned") =>
        /\ IsPositive(last.ret.factor)
        /\ IsPositive(last.ret.energy) => IsPositive(last.ret.co2)

\* the energy per token of the table for model, the default one when the table
\* has no such model
TableEnergy(model) ==
    IF model \in DOMAIN ENERGY_PER_TOKEN
    THEN ENERGY_PER_TOKEN[model]
    ELSE ENERGY_PER_TOKEN.default

\* C17: a calculation with a positive-integer token count returns, whatever the
\* model, with energy = tokens * the model's energy per token, the default
\* 0.000006 for a model the table does not have.
C17_UnknownModelUsesDefault ==
    (ComputeDone(last) /\ IsPositiveInteger(last.args.tokens)) =>
        /\ last.pc = "returned"
        /\ last.ret.energy = Mul(last.args.tokens, TableEnergy(last.args.model))
        /\ last.args.model \notin DOMAIN ENERGY_PER_TOKEN =>
               last.ret.energy = Mul(last.args.tokens, Num(6, -6))

\* C18: calculateEnvironmentalImpact(1000, 'gpt4', 'US', false) returns energy
\* 0.0086 kWh, the factor 0.416 of the static table's USA entry, and
\* co2 = 0.0086 * 0.416.
C18_StaticUsaExample ==
    (/\ ComputeDone(last)
     /\ last.args.tokens = Num(1000, 0)
     /\ last.args.model = "gpt4"
     /\ last.args.region = "US"
     /\ last.args.useRealTimeData = FALSE) =>
        /\ last.pc = "returned"
        /\ last.ret.energy = Num(86, -4)
        /\ last.ret.factor = CO2_EMISSION_FACTORS["usa-average"]
        /\ last.ret.factor = Num(416, -3)
        /\ last.ret.co2 = Mul(Num(86, -4), Num(416, -3))

\* the requests of the suspended call that have not settled yet, for key k
Awaiting(call, k) ==
    {i \in 1..Len(call.promises) :
        call.promises[i].pc = "awaiting" /\ call.keys[i] = k}

\* C19: getMultipleCarbonIntensities(countryCodes) returns an array as long as
\* countryCodes whose i-th element is the sample for countryCodes[i], in whatever
\* order the requests settle; and while it is suspended every one of its
\* getCarbonIntensity calls has been made, the requests of all of them being out.
C19_ResultsInInputOrder ==
    /\ ManyReturned(last) =>
           /\ Len(last.ret) = Len(last.keys)
           /\ \A i \in 1..Len(last.keys) :
                  /\ last.ret[i] = last.promises[i].ret
                  /\ last.ret[i].countryCode = ToUpperCase(last.keys[i])
                  /\ last.ret[i].region = mapCountryCodeToRegion(last.keys[i])
    /\ \A call \in calls :
           call.op = "resolveMany" =>
               /\ Len(call.promises) = Len(call.keys)
               /\ \A i \in 1..Len(call.promises) :
                      call.promises[i].pc \in {"awaiting", "returned"}
               /\ \A k \in Keys : requests[k] >= Cardinality(Awaiting(call, k))

\* the request for the second key settled before the request for the first
C19_Witness ==
    /\ ManyReturned(last)
    /\ last.keys = <<"US", "INVALID-REGION">>
    /\ last.promises[1].path \in {"live", "catch"}
    /\ last.promises[2].path \in {"live", "catch"}
    /\ last.ret[2].timestamp < last.ret[1].timestamp

\* C20: clearCache() leaves the cache without entries, whatever it held: right
\* after it getCacheStats() reports totalEntries = validEntries =
\* expiredEntries = 0, and getCarbonIntensity(k) does not find an entry, for
\* every k.
C20_ClearCacheEmpties ==
    [][(last'.op = "clearCache" /\ last'.id = callSeq' /\ callSeq' # callSeq) =>
          /\ \A k \in DOMAIN cache' : cache'[k] = Undefined
          /\ (getCacheStats(now).totalEntries)' = 0
          /\ (getCacheStats(now).validEntries)' = 0
          /\ (getCacheStats(now).expiredEntries)' = 0
          /\ \A k \in Keys : (ResolveSync(k, now).path)' # "cache"]_vars

\* clearCache() returned after clearing a cache that held an entry younger than
\* the TTL
C20_Witness ==
    /\ last.op = "clearCache"
    /\ last.pc = "returned"
    /\ last.cached = Num(1, 0)
    /\ now < CACHE_TTL
    /\ CacheSize(cache) = 0

\* this step is a getCacheStats() call
CallsCacheStats == last'.op = "getCacheStats" /\ last'.id = callSeq' /\ callSeq' # callSeq

\* C21: getCacheStats() leaves every cache entry as it was, and its result has
\* totalEntries = validEntries + expiredEntries with validEntries the number of
\* entries younger than the TTL at the time of the call.
C21_CacheStatsReadOnly ==
    [][CallsCacheStats =>
          /\ cache' = cache
          /\ requests' = requests
          /\ last'.ret.totalEntries = last'.ret.validEntries + last'.ret.expiredEntries
          /\ last'.ret.totalEntries =
                 Cardinality({k \in DOMAIN cache : cache[k] # Undefined})
          /\ last'.ret.validEntries =
                 Cardinality({k \in DOMAIN cache : Unexpired(cache[k], now)})]_vars

\* getCacheStats() counted an entry that had reached the TTL, and left it there
C21_Witness ==
    /\ last.op = "getCacheStats"
    /\ last.ret.totalEntries = 1
    /\ last.ret.expiredEntries = 1
    /\ last.doneAt = now
    /\ CacheSize(cache) = 1

\* C22: when a getCarbonIntensity(k) call that found an entry for k of age TTL or
\* more has returned, that entry is no longer in the cache, however the call
\* ended; so no entry getCacheStats() would count as expired is one the last
\* returned call has read.
C22_ExpiredEntryEvicted ==
    (/\ ResolveReturned(last)
     /\ last.cached # Undefined
     /\ last.startedAt - last.cached.timestamp >= CACHE_TTL) =>
        cache[CacheKey(last.key)] # last.cached

\* the invocation with this id is suspended on its request
Suspended(id) == \E call \in calls : call.id = id

\* the invocation with this id has just returned
Returned(id) == last.id = id /\ last.pc = "returned" /\ last.op \in {"resolve", "compute"}

\* C23: every getCarbonIntensity call and every calculateEnvironmentalImpact
\* call that waits for the provider returns in the end, also when the provider
\* never answers: the timeout of the request rejects it.
C23_EveryCallReturns ==
    \A id \in 1..MaxCalls : Suspended(id) ~> Returned(id)

\* a call returned a fallback sample when the timeout of its request had run out
C23_Witness ==
    /\ ResolveReturned(last)
    /\ last.path = "catch"
    /\ last.doneAt - last.startedAt >= REQUEST_TIMEOUT
    /\ last.ret.source = "fallback"

\* C24: with useRealTimeData false, energy, factor and co2 of the result are a
\* function of (tokens, model, region) alone, so any two such calls with the same
\* three arguments return the same three values, whatever the cache holds,
\* whatever getCarbonIntensity calls ran before, and with or without API key.
C24_StaticPathDeterministic ==
    (ComputeDone(last) /\ last.pc = "returned" /\ ~last.args.useRealTimeData) =>
        /\ last.ret.energy = Mul(last.args.tokens, EnergyPerToken(last.args.model))
        /\ last.ret.factor = StaticFactor(last.args.region)
        /\ last.ret.co2 = Mul(last.ret.energy, last.ret.factor)

\* a calculation for 'US' without real-time data returned while the cache held a
\* live sample for 'US'
C24_Witness ==
    /\ ComputeDone(last)
    /\ last.pc = "returned"
    /\ ~last.args.useRealTimeData
    /\ last.args.region = "US"
    /\ Truthy(apiKey)
    /\ cache[CacheKey("US")] # Undefined
    /\ cache[CacheKey("US")].data.source = "co2signal"
    /\ last.startedAt - cache[CacheKey("US")].timestamp < CACHE_TTL

\* a number >= 0
IsNonNegative(v) == v.t = "number" /\ v.m >= 0

\* the digits each equivalence is rounded to
EquivalenceDigits ==
    [carMiles |-> 2, flightMiles |-> 2, beefBurgers |-> 2, smartphoneCharges |-> 0,
     householdElectricityDays |-> 2, treeYears |-> 2, laptopHours |-> 2,
     lightbulbHours |-> 0]

\* the constant each equivalence divides by
EquivalenceConstant ==
    [carMiles |-> EQUIVALENCE_FACTORS.carMilePerGallon,
     flightMiles |-> EQUIVALENCE_FACTORS.flightPerMile,
     beefBurgers |-> EQUIVALENCE_FACTORS.beefBurger,
     smartphoneCharges |-> EQUIVALENCE_FACTORS.smartphoneCharge,
     householdElectricityDays |-> EQUIVALENCE_FACTORS.householdElectricityPerDay,
     treeYears |-> EQUIVALENCE_FACTORS.treeYearAbsorption,
     laptopHours |-> EQUIVALENCE_FACTORS.laptopHour,
     lightbulbHours |-> EQUIVALENCE_FACTORS.lightbulbHour]

\* C25: in every result each of the eight equivalences is the reported co2.total
\* divided by its constant and then rounded (to 2 decimals, to an integer for
\* smartphoneCharges and lightbulbHours) and is a number >= 0; the reported
\* energy, co2 and factor are the unrounded tokens * energy per token,
\* energy * factor and factor.  (Stated for the results with energy > 0.)
C25_EquivalencesFromUnroundedCo2 ==
    (ComputeDone(last) /\ last.pc = "returned" /\ IsPositive(last.ret.energy)) =>
        /\ DOMAIN last.ret.equivalences = DOMAIN EquivalenceDigits
        /\ \A name \in DOMAIN EquivalenceDigits :
               /\ last.ret.equivalences[name] =
                      RoundedQuotient(last.ret.co2, EquivalenceConstant[name],
                                      EquivalenceDigits[name])
               /\ IsNonNegative(last.ret.equivalences[name])
        /\ last.ret.energy = Mul(last.args.tokens, EnergyPerToken(last.args.model))
        /\ last.ret.co2 = Mul(last.ret.energy, last.ret.factor)

\* the entries and request counts of the keys other than k are unchanged in this step
OthersUnchanged(k) ==
    \A j \in Keys \ {k} :
        cache'[CacheKey(j)] = cache[CacheKey(j)] /\ requests'[j] = requests[j]

\* C26: one getCarbonIntensity(k) call issues at most one request and writes at
\* most one cache entry, the one for k: up to its suspension it issues one
\* request and writes nothing, or returns having issued none; from the settling
\* of its request it issues none; the entries of the other keys stay as they are.
C26_OneRequestOneEntry ==
    [][/\ \A k \in Keys :
             StartsResolve(k) =>
                 /\ OthersUnchanged(k)
                 /\ IF last'.id = callSeq'
                    THEN requests' = requests
                    ELSE requests'[k] = requests[k] + 1 /\ cache' = cache
       /\ (ReturnsResolve /\ callSeq' = callSeq) =>
             /\ requests' = requests
             /\ OthersUnchanged(last'.key)]_vars

\* a call wrote the entry for 'US' beside the older entry of another key
C26_Witness ==
    /\ ResolveReturned(last)
    /\ last.key = "US"
    /\ last.path = "live"
    /\ requests["US"] = 1
    /\ cache[CacheKey("US")] # Undefined
    /\ cache[CacheKey("US")].data = last.ret
    /\ cache[CacheKey("INVALID-REGION")] # Undefined
    /\ cache[CacheKey("INVALID-REGION")].data.countryCode = "INVALID-REGION"

\* undefined, null, or a number <= 0
NotPositive(tokens) ==
    tokens.t \in {"undefined", "null"} \/ (tokens.t = "number" /\ tokens.m <= 0)

\* C27: a calculateEnvironmentalImpact call whose tokens is missing or <= 0
\* throws, and a call that throws has not called getCarbonIntensity, has issued
\* no request and leaves the cache as it was, whatever the model, the region and
\* useRealTimeData.
C27_ValidationErrorChangesNothing ==
    [][(/\ callSeq' = callSeq + 1
        /\ last'.id = callSeq'
        /\ last'.op = "compute"
        /\ (last'.pc = "threw" \/ NotPositive(last'.args.tokens))) =>
           /\ last'.pc = "threw"
           /\ last'.path = "validation"
           /\ cache' = cache
           /\ requests' = requests
           /\ calls' = calls]_vars

\* a call for a region and a model that would have gone to the provider threw,
\* the cache holding what an earlier call left there
C27_Witness ==
    /\ ComputeDone(last)
    /\ last.pc = "threw"
    /\ last.args.region = "US"
    /\ last.args.useRealTimeData
    /\ last.args.model = "totally-unknown-model"
    /\ Truthy(apiKey)
    /\ requests["US"] = 1
    /\ cache[CacheKey("US")] # Undefined

\* data is a whole sample getCarbonIntensity(k) builds at time t
IsSampleFor(k, data, t) ==
    \/ data = getFallbackCarbonIntensity(k, t)
    \/ \E body \in Bodies : data = LiveResult(k, body, t)

\* every entry of the cache c holds a whole sample built for its key when the
\* entry was written
EntriesWhole(c) ==
    \A k \in ResolveKeys :
        c[CacheKey(k)] # Undefined =>
            IsSampleFor(k, c[CacheKey(k)].data, c[CacheKey(k)].timestamp)

\* C28: with getCarbonIntensity calls overlapping in any way, every cache entry
\* holds a whole sample one call built for the entry's key, and a call that
\* writes an entry replaces whatever entry the key had, so that the entry of a
\* key is the one of the call that wrote last.
C28_LastWriterWins ==
    [][/\ EntriesWhole(cache')
       /\ (ReturnsResolve /\ last'.path \in {"live", "nokey"}) =>
             cache'[CacheKey(last'.key)] =
                 [t |-> "entry", data |-> last'.ret, timestamp |-> now]
       /\ (ReturnsResolve /\ last'.path \in {"cache", "catch"}) => cache' = cache]_vars

\* of two overlapping calls for 'US' that went to the provider, the one started
\* first returned last, and the entry is the one it wrote
C28_Witness ==
    /\ ResolveReturned(last)
    /\ last.id = 1
    /\ last.key = "US"
    /\ last.path = "live"
    /\ callSeq = 2
    /\ calls = {}
    /\ requests["US"] = 2
    /\ cache[CacheKey("US")].data = last.ret

\* C29: for a region neither table has, a calculation with useRealTimeData true
\* whose sample is a fallback one has the factor a calculation with
\* useRealTimeData false has, the global-average 0.475 kg CO2/kWh.
C29_FallbackKeepsScale ==
    (/\ ComputeDone(last)
     /\ last.pc = "returned"
     /\ IsPositiveInteger(last.args.tokens)
     /\ last.args.region = "INVALID-REGION"
     /\ last.args.useRealTimeData
     /\ last.ret.metadata.dataSource = "fallback") =>
        /\ last.ret.factor = StaticFactor(last.args.region)
        /\ last.ret.factor = Num(475, -3)

\* the requests for key k that are out: one of each suspended getCarbonIntensity
\* or calculateEnvironmentalImpact call for k, and those of the unsettled
\* getCarbonIntensity calls of a suspended getMultipleCarbonIntensities
InFlight(k) ==
    {<<call.id, 0>> : call \in {c \in calls : c.op # "resolveMany" /\ c.key = k}}
    \cup UNION {{<<call.id, i>> : i \in Awaiting(call, k)} :
                   call \in {c \in calls : c.op = "resolveMany"}}

\* C30: at no time is more than one request for the same key out: calls for a
\* key that overlap share one request.
C30_OneRequestInFlightPerKey ==
    \A k \in ResolveKeys : Cardinality(InFlight(k)) <= 1

====
